---- MODULE Spec2Model ----
(***************************************************************************)
(* The active workout session store (useWorkoutStore) of PersonalTrainer:  *)
(* the zustand store's state, its synchronous mutations, its two clocks    *)
(* and the asynchronous finishWorkout commit, whose awaits on the storage  *)
(* client are the points where other store operations interleave.          *)
(***************************************************************************)
EXTENDS Integers, Sequences, FiniteSets, TLC

\* ------------------------------------------------------------------ bounds
MaxIds == 6          \* generateId() calls in one behaviour
MaxSets == 2         \* sets an exercise may be grown to by addSet
MaxElapsed == 1      \* cap of the elapsed clock
MaxRest == 1         \* longest rest period started
MaxFinishCalls == 2  \* finishWorkout calls in one behaviour
MaxCountdown == 3    \* longest rest period the session screen starts
MaxSeconds == 35     \* cap of a rest period extended by +30s
MaxVibrations == 2   \* cap of the count of rest-finished notifications
MaxLoad == 600       \* heaviest load per side handed to calculatePlates, in 0.005 kg

\* ------------------------------------------------------------------ values
\* null / undefined of a nullable number (weight, reps, rpe, order)
NULL == -1
\* undefined exerciseId of the rest timer
NoExercise == 0
\* null template_id, null tag / notes of a template row
NoTemplate == "null"
NoTag == "null"
NoNotes == "undefined"
\* activeSession: null
NoSession == [live |-> FALSE]

\* x ?? d
Coalesce(x, d) == IF x = NULL THEN d ELSE x

UserIds == {"u1"}
Names == {"Leg Day"}

\* Templates handed to startFromTemplate: one with two exercises, one with none.
TemplatePush ==
  [id |-> "t1", name |-> "Push",
   exercises |-> <<
     [exercise_id |-> "bench", notes |-> NoNotes, order |-> 0, order_index |-> NULL,
      sets |-> << [tag |-> NoTag, target_weight |-> 100, target_reps |-> 5],
                  [tag |-> "drop", target_weight |-> 80, target_reps |-> NULL] >>],
     [exercise_id |-> "squat", notes |-> NoNotes, order |-> NULL, order_index |-> 1,
      sets |-> << [tag |-> "warmup", target_weight |-> 50, target_reps |-> 3] >>] >>]

TemplateBlank == [id |-> "t0", name |-> "Blank", exercises |-> <<>>]

Templates == {TemplatePush, TemplateBlank}

\* A template short enough to leave fresh ids for addSet: one exercise, one set.
TemplateSolo ==
  [id |-> "t2", name |-> "Solo",
   exercises |-> <<
     [exercise_id |-> "row", notes |-> NoNotes, order |-> 0, order_index |-> NULL,
      sets |-> << [tag |-> NoTag, target_weight |-> 40, target_reps |-> 8] >>] >>]

\* Partial<WorkoutSet> values handed to updateSet
SetUpdates ==
  { [actual_weight |-> 60],
    [actual_reps |-> NULL],
    [status |-> "pending"] }

NotesInputs == {"slow"}

\* ------------------------------------------------------------------ state
VARIABLES
  activeSession,   \* the live session or NoSession
  elapsedSeconds,  \* the elapsed clock
  restTimer,       \* [isRunning, remaining, total, exerciseId]
  isFinishing,     \* the finishing flag
  nextId,          \* generateId(): the next fresh id
  calls,           \* the finishWorkout calls made so far: how each ended or,
                   \* for a call in flight, its position, its locals and the
                   \* requests it has issued to the storage client, in order
  lastOp,          \* the store operation that produced this state
  screen,          \* the session screen: whether it is mounted, and what its
                   \* rest-timer effect holds
  calc             \* a call of one of the calculations: its arguments and,
                   \* once it has returned, its result

vars == <<activeSession, elapsedSeconds, restTimer, isFinishing,
          nextId, calls, lastOp, screen, calc>>

\* lastOp: a store operation, or the resolution of a request of finish call c
Op(name) == [op |-> name, call |-> 0, outcome |-> "none"]
Resolution(name, c, outcome) == [op |-> name, call |-> c, outcome |-> outcome]

StoppedTimer == [isRunning |-> FALSE, remaining |-> 0, total |-> 0, exerciseId |-> NoExercise]

\* The session screen before it is mounted.  seenRunning is the value of
\* restTimer.isRunning at the last run of the rest-timer effect (its dependency),
\* interval says whether restRef holds a live interval, vibrations counts the
\* Vibration.vibrate calls made.
Unmounted == [mounted |-> FALSE, seenRunning |-> FALSE, interval |-> FALSE, vibrations |-> 0]

\* no calculation called
NoCall == [fn |-> "none", input |-> <<>>, returned |-> FALSE, output |-> <<>>]

\* a call of calculation fn with its arguments, before it has returned
Call(fn, input) == [fn |-> fn, input |-> input, returned |-> FALSE, output |-> <<>>]

\* the store and the screen before anything is called
InitStore ==
  /\ activeSession = NoSession
  /\ elapsedSeconds = 0
  /\ restTimer = StoppedTimer
  /\ isFinishing = FALSE
  /\ nextId = 1
  /\ calls = <<>>
  /\ lastOp = Op("init")
  /\ screen = Unmounted

Init == InitStore /\ calc = NoCall

\* ------------------------------------------------------------------ helpers
RECURSIVE SumSeq(_)
SumSeq(s) == IF s = <<>> THEN 0 ELSE Head(s) + SumSeq(Tail(s))

\* { ...ws, ...updates }
Merge(ws, updates) ==
  [f \in DOMAIN ws |-> IF f \in DOMAIN updates THEN updates[f] ELSE ws[f]]

\* ids consumed by buildSessionFromTemplate before the k-th template exercise
RECURSIVE IdsBefore(_, _)
IdsBefore(exs, k) ==
  IF k <= 1 THEN 0 ELSE IdsBefore(exs, k - 1) + 1 + Len(exs[k - 1].sets)

IdsNeeded(template) == IdsBefore(template.exercises, Len(template.exercises) + 1) + 1

\* ------------------------------------------------------------------ session lifecycle
buildSessionFromTemplate_RawTag(template, userId, id0) ==
  LET tes == template.exercises
      exercises ==
        [k \in 1..Len(tes) |->
          LET te == tes[k]
              exId == id0 + IdsBefore(tes, k)
          IN [id |-> exId,
              exercise_id |-> te.exercise_id,
              notes |-> te.notes,
              order |-> Coalesce(te.order, Coalesce(te.order_index, 0)),
              sets |-> [idx \in 1..Len(te.sets) |->
                 LET ts == te.sets[idx] IN
                 [id |-> exId + idx,
                  exercise_id |-> te.exercise_id,
                  set_number |-> idx,
                  tag |-> ts.tag,
                  target_weight |-> ts.target_weight,
                  target_reps |-> ts.target_reps,
                  actual_weight |-> ts.target_weight,
                  actual_reps |-> ts.target_reps,
                  rpe |-> NULL,
                  status |-> "pending"]]]]
  IN [live |-> TRUE,
      id |-> id0 + IdsNeeded(template) - 1,
      user_id |-> userId,
      name |-> template.name,
      template_id |-> template.id,
      exercises |-> exercises,
      pr_events |-> <<>>]

buildSessionFromTemplate(template, userId, id0) ==
  LET tes == template.exercises
      exercises ==
        [k \in 1..Len(tes) |->
          LET te == tes[k]
              exId == id0 + IdsBefore(tes, k)
          IN [id |-> exId,
              exercise_id |-> te.exercise_id,
              notes |-> te.notes,
              order |-> Coalesce(te.order, Coalesce(te.order_index, 0)),
              sets |-> [idx \in 1..Len(te.sets) |->
                 LET ts == te.sets[idx] IN
                 [id |-> exId + idx,
                  exercise_id |-> te.exercise_id,
                  set_number |-> idx,
                  tag |-> IF ts.tag = NoTag THEN "normal" ELSE ts.tag,
                  target_weight |-> ts.target_weight,
                  target_reps |-> ts.target_reps,
                  actual_weight |-> ts.target_weight,
                  actual_reps |-> ts.target_reps,
                  rpe |-> NULL,
                  status |-> "pending"]]]]
  IN [live |-> TRUE,
      id |-> id0 + IdsNeeded(template) - 1,
      user_id |-> userId,
      name |-> template.name,
      template_id |-> template.id,
      exercises |-> exercises,
      pr_events |-> <<>>]

startFromTemplate(template, userId) ==
  /\ nextId + IdsNeeded(template) - 1 <= MaxIds
  /\ activeSession' = buildSessionFromTemplate(template, userId, nextId)
  /\ elapsedSeconds' = 0
  /\ nextId' = nextId + IdsNeeded(template)
  /\ lastOp' = Op("startFromTemplate")
  /\ UNCHANGED <<restTimer, isFinishing, calls, screen, calc>>

startEmpty(name, userId) ==
  /\ nextId <= MaxIds
  /\ activeSession' = [live |-> TRUE,
                       id |-> nextId,
                       user_id |-> userId,
                       name |-> name,
                       template_id |-> NoTemplate,
                       exercises |-> <<>>,
                       pr_events |-> <<>>]
  /\ elapsedSeconds' = 0
  /\ nextId' = nextId + 1
  /\ lastOp' = Op("startEmpty")
  /\ UNCHANGED <<restTimer, isFinishing, calls, screen, calc>>

discardWorkout_KeepsTimer ==
  /\ activeSession' = NoSession
  /\ elapsedSeconds' = 0
  /\ lastOp' = Op("discardWorkout")
  /\ UNCHANGED <<restTimer, isFinishing, nextId, calls, screen, calc>>

discardWorkout ==
  /\ activeSession' = NoSession
  /\ elapsedSeconds' = 0
  /\ restTimer' = StoppedTimer
  /\ lastOp' = Op("discardWorkout")
  /\ UNCHANGED <<isFinishing, nextId, calls, screen, calc>>

\* ------------------------------------------------------------------ set and exercise mutations
\* s.activeSession.exercises of a mutation's set(s => ...)
Exercises == IF activeSession.live THEN activeSession.exercises ELSE <<>>

\* set(s => ...) of a mutation: the state is returned as it is when no session
\* is live, and with the session's exercises replaced otherwise.
Mutate(op, newExercises) ==
  /\ activeSession' =
       IF ~activeSession.live THEN activeSession
       ELSE [activeSession EXCEPT !.exercises = newExercises]
  /\ lastOp' = Op(op)
  /\ UNCHANGED <<elapsedSeconds, restTimer, isFinishing, calls, screen, calc>>

completeSet(exerciseId, setId) ==
  LET OnSet(ws) == IF ws.id # setId THEN ws ELSE [ws EXCEPT !.status = "completed"]
      OnEx(ex) == IF ex.id # exerciseId THEN ex
                  ELSE [ex EXCEPT !.sets = [j \in 1..Len(ex.sets) |-> OnSet(ex.sets[j])]]
  IN /\ Mutate("completeSet", [i \in 1..Len(Exercises) |-> OnEx(Exercises[i])])
     /\ UNCHANGED nextId

updateSet(exerciseId, setId, updates) ==
  LET OnSet(ws) == IF ws.id # setId THEN ws ELSE Merge(ws, updates)
      OnEx(ex) == IF ex.id # exerciseId THEN ex
                  ELSE [ex EXCEPT !.sets = [j \in 1..Len(ex.sets) |-> OnSet(ex.sets[j])]]
  IN /\ Mutate("updateSet", [i \in 1..Len(Exercises) |-> OnEx(Exercises[i])])
     /\ UNCHANGED nextId

removeSet_AnyExercise(exerciseId, setId) ==
  LET Keep(ws) == ws.id # setId
      OnEx(ex) == [ex EXCEPT !.sets = SelectSeq(ex.sets, Keep)]
  IN /\ Mutate("removeSet", [i \in 1..Len(Exercises) |-> OnEx(Exercises[i])])
     /\ UNCHANGED nextId

removeSet(exerciseId, setId) ==
  LET Keep(ws) == ws.id # setId
      OnEx(ex) == IF ex.id # exerciseId THEN ex
                  ELSE [ex EXCEPT !.sets = SelectSeq(ex.sets, Keep)]
  IN /\ Mutate("removeSet", [i \in 1..Len(Exercises) |-> OnEx(Exercises[i])])
     /\ UNCHANGED nextId

LastField_Null(sets, f) == NULL

\* lastSet?.field ?? null
LastField(sets, f) == IF sets = <<>> THEN NULL ELSE sets[Len(sets)][f]

addSet(exerciseId) ==
  LET OnEx(ex) ==
        IF ex.id # exerciseId THEN ex
        ELSE [ex EXCEPT !.sets = Append(ex.sets,
               [id |-> nextId,
                exercise_id |-> ex.exercise_id,
                set_number |-> Len(ex.sets) + 1,
                tag |-> "normal",
                target_weight |-> LastField(ex.sets, "target_weight"),
                target_reps |-> LastField(ex.sets, "target_reps"),
                actual_weight |-> LastField(ex.sets, "actual_weight"),
                actual_reps |-> LastField(ex.sets, "actual_reps"),
                rpe |-> NULL,
                status |-> "pending"])]
      hit == {i \in 1..Len(Exercises) : Exercises[i].id = exerciseId}
  IN /\ nextId <= MaxIds
     /\ \A i \in hit : Len(Exercises[i].sets) < MaxSets
     /\ Mutate("addSet", [i \in 1..Len(Exercises) |-> OnEx(Exercises[i])])
     /\ nextId' = IF hit # {} THEN nextId + 1 ELSE nextId

updateExerciseNotes(exerciseId, notes) ==
  LET OnEx(ex) == IF ex.id # exerciseId THEN ex ELSE [ex EXCEPT !.notes = notes]
  IN /\ Mutate("updateExerciseNotes", [i \in 1..Len(Exercises) |-> OnEx(Exercises[i])])
     /\ UNCHANGED nextId

removeExercise(exerciseId) ==
  LET Keep(ex) == ex.id # exerciseId
  IN /\ Mutate("removeExercise", SelectSeq(Exercises, Keep))
     /\ UNCHANGED nextId

\* ------------------------------------------------------------------ timers
tickElapsed_PausedAtRest ==
  /\ ~restTimer.isRunning
  /\ elapsedSeconds < MaxElapsed
  /\ elapsedSeconds' = elapsedSeconds + 1
  /\ lastOp' = Op("tickElapsed")
  /\ UNCHANGED <<activeSession, restTimer, isFinishing, nextId, calls, screen, calc>>

tickElapsed ==
  /\ elapsedSeconds < MaxElapsed
  /\ elapsedSeconds' = elapsedSeconds + 1
  /\ lastOp' = Op("tickElapsed")
  /\ UNCHANGED <<activeSession, restTimer, isFinishing, nextId, calls, screen, calc>>

startRestTimer_KeepsTotal(seconds, exerciseId) ==
  /\ restTimer' = [isRunning |-> TRUE, remaining |-> seconds,
                   total |-> IF restTimer.isRunning THEN restTimer.total ELSE seconds,
                   exerciseId |-> exerciseId]
  /\ lastOp' = Op("startRestTimer")
  /\ UNCHANGED <<activeSession, elapsedSeconds, isFinishing, nextId, calls, screen, calc>>

startRestTimer(seconds, exerciseId) ==
  /\ restTimer' = [isRunning |-> TRUE, remaining |-> seconds, total |-> seconds,
                   exerciseId |-> exerciseId]
  /\ lastOp' = Op("startRestTimer")
  /\ UNCHANGED <<activeSession, elapsedSeconds, isFinishing, nextId, calls, screen, calc>>

stopRestTimer_KeepsTotal ==
  /\ restTimer' = [restTimer EXCEPT !.isRunning = FALSE, !.remaining = 0]
  /\ lastOp' = Op("stopRestTimer")
  /\ UNCHANGED <<activeSession, elapsedSeconds, isFinishing, nextId, calls, screen, calc>>

stopRestTimer ==
  /\ restTimer' = StoppedTimer
  /\ lastOp' = Op("stopRestTimer")
  /\ UNCHANGED <<activeSession, elapsedSeconds, isFinishing, nextId, calls, screen, calc>>

tickTimer_Repeats ==
  /\ LET remaining == restTimer.remaining - 1 IN
       restTimer' = IF remaining <= 0
                    THEN [restTimer EXCEPT !.remaining = restTimer.total]
                    ELSE [restTimer EXCEPT !.remaining = remaining]
  /\ lastOp' = Op("tickTimer")
  /\ UNCHANGED <<activeSession, elapsedSeconds, isFinishing, nextId, calls, screen, calc>>

tickTimer ==
  /\ LET remaining == restTimer.remaining - 1 IN
       restTimer' = IF remaining <= 0
                    THEN [restTimer EXCEPT !.isRunning = FALSE, !.remaining = 0]
                    ELSE [restTimer EXCEPT !.remaining = remaining]
  /\ lastOp' = Op("tickTimer")
  /\ UNCHANGED <<activeSession, elapsedSeconds, isFinishing, nextId, calls, screen, calc>>

\* ------------------------------------------------------------------ session screen
\* the seconds the +30s button adds
Add30 == 30

\* exerciseId arguments of startRestTimer: none, or the id of an exercise
RestExercises == {NoExercise, 1}

\* The body of the rest-timer effect, run with the rest timer rt of the render:
\* an interval while the timer runs; otherwise no interval, and one vibration
\* if the timer stands at zero with a total above zero.
RunRestEffect(sc, rt) ==
  [sc EXCEPT !.seenRunning = rt.isRunning,
             !.interval = rt.isRunning,
             !.vibrations = IF ~rt.isRunning /\ rt.remaining = 0 /\ rt.total > 0
                            THEN @ + 1 ELSE @]

\* restTimer.isRunning differs from what the last run of the effect saw: the
\* effect runs before anything else does
EffectPending == screen.mounted /\ screen.seenRunning # restTimer.isRunning

\* the screen is mounted: every effect runs once
mountSession ==
  /\ ~screen.mounted
  /\ screen' = RunRestEffect([screen EXCEPT !.mounted = TRUE], restTimer)
  /\ lastOp' = Op("mountSession")
  /\ UNCHANGED <<activeSession, elapsedSeconds, restTimer, isFinishing, nextId, calls, calc>>

\* the screen is unmounted: the effect's cleanup clears the interval
unmountSession ==
  /\ screen.mounted
  /\ screen' = [screen EXCEPT !.mounted = FALSE, !.interval = FALSE]
  /\ lastOp' = Op("unmountSession")
  /\ UNCHANGED <<activeSession, elapsedSeconds, restTimer, isFinishing, nextId, calls, calc>>

\* useEffect(..., [restTimer.isRunning]) after a render in which isRunning changed
restEffect ==
  /\ EffectPending
  /\ screen' = RunRestEffect(screen, restTimer)
  /\ UNCHANGED <<activeSession, elapsedSeconds, restTimer, isFinishing, nextId, calls,
                 lastOp, calc>>

\* the +30s button of the RestTimer bar, shown while the timer runs
onAdd30 ==
  /\ screen.mounted
  /\ restTimer.isRunning
  /\ startRestTimer(restTimer.remaining + Add30, NoExercise)

\* ------------------------------------------------------------------ finishWorkout
IsCompleted(ws) == ws.status = "completed"

\* ex.sets.some(s => s.status === 'completed')
HasCompleted(ex) == \E i \in 1..Len(ex.sets) : IsCompleted(ex.sets[i])

\* activeSession.exercises.filter(ex => ex.sets.some(...))
CompletedExercises(session) == SelectSeq(session.exercises, HasCompleted)

CompletedSets_Unfiltered(ex) == ex.sets

\* ex.sets.filter(s => s.status === 'completed')
CompletedSets(ex) == SelectSeq(ex.sets, IsCompleted)

\* (set.actual_weight ?? 0) * (set.actual_reps ?? 0)
SetVolume(ws) == Coalesce(ws.actual_weight, 0) * Coalesce(ws.actual_reps, 0)

ExerciseVolume_AllSets(ex) == SumSeq([j \in 1..Len(ex.sets) |-> SetVolume(ex.sets[j])])

\* the inner reduce over one exercise's completed sets
ExerciseVolume(ex) ==
  LET cs == CompletedSets(ex) IN SumSeq([j \in 1..Len(cs) |-> SetVolume(cs[j])])

\* the outer reduce over completedExercises
TotalVolumeKg(session) ==
  LET ces == CompletedExercises(session) IN
  SumSeq([i \in 1..Len(ces) |-> ExerciseVolume(ces[i])])

\* The rows handed to the storage client (the two timestamps are left out).
WorkoutRow(session, elapsed) ==
  [id |-> session.id,
   user_id |-> session.user_id,
   name |-> session.name,
   template_id |-> session.template_id,
   duration_seconds |-> elapsed,
   total_volume_kg |-> TotalVolumeKg(session)]

ExerciseRow(session, ex) ==
  [id |-> ex.id,
   workout_id |-> session.id,
   exercise_id |-> ex.exercise_id,
   notes |-> ex.notes,
   order |-> Coalesce(ex.order, 0)]

SetRows(ex) ==
  LET cs == CompletedSets(ex) IN
  [idx \in 1..Len(cs) |->
     [id |-> cs[idx].id,
      workout_exercise_id |-> ex.id,
      set_number |-> Coalesce(cs[idx].set_number, idx),
      tag |-> cs[idx].tag,
      actual_weight |-> cs[idx].actual_weight,
      actual_reps |-> cs[idx].actual_reps,
      rpe |-> cs[idx].rpe]]

\* one request to the storage client
Write(table, row) == [table |-> table, row |-> row]

\* what a request resolves to: { data, error: null } or { data: null, error }
Outcomes == {"ok", "error"}

\* a call that has returned: its locals are gone; what stays is how it ended
\* and how many requests it had issued
Ended(how, issued) ==
  [pc |-> how, session |-> NoSession, elapsed |-> 0, idx |-> 0, writes |-> <<>>,
   issued |-> issued]

InFlight(c) == calls[c].pc \in {"awaitWorkout", "awaitExercise", "awaitSets", "awaitTemplate"}

\* call c with one more request issued and its position moved to pc
Issue(c, pc, idx, w) ==
  [calls EXCEPT ![c].pc = pc, ![c].idx = idx, ![c].writes = Append(@, w),
                ![c].issued = @ + 1]

\* const { activeSession, elapsedSeconds } = get(); ... up to the first await
finishWorkout ==
  /\ Len(calls) < MaxFinishCalls
  /\ lastOp' = Op("finishWorkout")
  /\ UNCHANGED <<activeSession, elapsedSeconds, restTimer, nextId, screen, calc>>
  /\ IF ~activeSession.live
     THEN /\ calls' = Append(calls, Ended("returned", 0))
          /\ UNCHANGED isFinishing
     ELSE /\ isFinishing' = TRUE
          /\ calls' = Append(calls,
               [pc |-> "awaitWorkout", session |-> activeSession,
                elapsed |-> elapsedSeconds, idx |-> 0,
                writes |-> << Write("workouts",
                                    WorkoutRow(activeSession, elapsedSeconds)) >>,
                issued |-> 1])

FinishCleared_KeepsFlag(c) ==
  /\ activeSession' = NoSession
  /\ elapsedSeconds' = 0
  /\ UNCHANGED isFinishing
  /\ calls' = [calls EXCEPT ![c] = Ended("done", Len(calls[c].writes))]

\* set({ activeSession: null, elapsedSeconds: 0, isFinishing: false })
FinishCleared(c) ==
  /\ activeSession' = NoSession
  /\ elapsedSeconds' = 0
  /\ isFinishing' = FALSE
  /\ calls' = [calls EXCEPT ![c] = Ended("done", Len(calls[c].writes))]

ResumeLoop_ReadsLive(c, i) ==
  LET session == IF activeSession.live THEN activeSession ELSE calls[c].session
      ces == CompletedExercises(session)
  IN IF i <= Len(ces)
     THEN /\ calls' = Issue(c, "awaitExercise", i,
                            Write("workout_exercises", ExerciseRow(session, ces[i])))
          /\ UNCHANGED <<activeSession, elapsedSeconds, isFinishing>>
     ELSE IF session.template_id # NoTemplate
     THEN /\ calls' = Issue(c, "awaitTemplate", i,
                            Write("templates", [id |-> session.template_id]))
          /\ UNCHANGED <<activeSession, elapsedSeconds, isFinishing>>
     ELSE FinishCleared(c)

\* The for loop from its i-th iteration up to the next await, then the template
\* update, then the final set(): what runs once a storage promise has resolved.
ResumeLoop(c, i) ==
  LET session == calls[c].session
      ces == CompletedExercises(session)
  IN IF i <= Len(ces)
     THEN /\ calls' = Issue(c, "awaitExercise", i,
                            Write("workout_exercises", ExerciseRow(session, ces[i])))
          /\ UNCHANGED <<activeSession, elapsedSeconds, isFinishing>>
     ELSE IF session.template_id # NoTemplate
     THEN /\ calls' = Issue(c, "awaitTemplate", i,
                            Write("templates", [id |-> session.template_id]))
          /\ UNCHANGED <<activeSession, elapsedSeconds, isFinishing>>
     ELSE FinishCleared(c)

FinishFailed_KeepsFlag(c) ==
  /\ calls' = [calls EXCEPT ![c] = Ended("failed", Len(calls[c].writes))]
  /\ UNCHANGED <<activeSession, elapsedSeconds, isFinishing>>

\* catch (err) { set({ isFinishing: false }); throw err; }
FinishFailed(c) ==
  /\ isFinishing' = FALSE
  /\ calls' = [calls EXCEPT ![c] = Ended("failed", Len(calls[c].writes))]
  /\ UNCHANGED <<activeSession, elapsedSeconds>>

workoutInserted_IgnoresError(c, outcome) ==
  /\ calls[c].pc = "awaitWorkout"
  /\ lastOp' = Resolution("workoutInserted", c, outcome)
  /\ UNCHANGED <<restTimer, nextId, screen, calc>>
  /\ ResumeLoop(c, 1)

\* the insert into workouts resolved: if (wErr) throw wErr
workoutInserted(c, outcome) ==
  /\ calls[c].pc = "awaitWorkout"
  /\ lastOp' = Resolution("workoutInserted", c, outcome)
  /\ UNCHANGED <<restTimer, nextId, screen, calc>>
  /\ IF outcome = "error" THEN FinishFailed(c) ELSE ResumeLoop(c, 1)

exerciseInserted_IgnoresError(c, outcome) ==
  /\ calls[c].pc = "awaitExercise"
  /\ lastOp' = Resolution("exerciseInserted", c, outcome)
  /\ UNCHANGED <<restTimer, nextId, screen, calc>>
  /\ LET ex == CompletedExercises(calls[c].session)[calls[c].idx] IN
     /\ calls' = Issue(c, "awaitSets", calls[c].idx, Write("workout_sets", SetRows(ex)))
     /\ UNCHANGED <<activeSession, elapsedSeconds, isFinishing>>

\* the insert into workout_exercises resolved: if (exErr) continue
exerciseInserted(c, outcome) ==
  /\ calls[c].pc = "awaitExercise"
  /\ lastOp' = Resolution("exerciseInserted", c, outcome)
  /\ UNCHANGED <<restTimer, nextId, screen, calc>>
  /\ LET ex == CompletedExercises(calls[c].session)[calls[c].idx] IN
     IF outcome = "error"
     THEN ResumeLoop(c, calls[c].idx + 1)
     ELSE IF Len(CompletedSets(ex)) > 0
     THEN /\ calls' = Issue(c, "awaitSets", calls[c].idx,
                            Write("workout_sets", SetRows(ex)))
          /\ UNCHANGED <<activeSession, elapsedSeconds, isFinishing>>
     ELSE ResumeLoop(c, calls[c].idx + 1)

setsInserted_Throws(c, outcome) ==
  /\ calls[c].pc = "awaitSets"
  /\ lastOp' = Resolution("setsInserted", c, outcome)
  /\ UNCHANGED <<restTimer, nextId, screen, calc>>
  /\ IF outcome = "error" THEN FinishFailed(c) ELSE ResumeLoop(c, calls[c].idx + 1)

\* the insert into workout_sets resolved: its result is not read
setsInserted(c, outcome) ==
  /\ calls[c].pc = "awaitSets"
  /\ lastOp' = Resolution("setsInserted", c, outcome)
  /\ UNCHANGED <<restTimer, nextId, screen, calc>>
  /\ ResumeLoop(c, calls[c].idx + 1)

\* the update of templates resolved: its result is not read
templateUpdated(c, outcome) ==
  /\ calls[c].pc = "awaitTemplate"
  /\ lastOp' = Resolution("templateUpdated", c, outcome)
  /\ UNCHANGED <<restTimer, nextId, screen, calc>>
  /\ FinishCleared(c)

\* ------------------------------------------------------------------ PR indicator
\* Epley: weight * (1 + reps / 30), and weight itself for one rep; counted in
\* thirtieths of a kg, which keeps the value whole and the order as it is
estimate1RM(weight, reps) ==
  IF reps = 1 THEN 30 * weight ELSE weight * (30 + reps)

\* a number that is not null, undefined or 0
Truthy(x) == x # NULL /\ x # 0

\* exercise.previous: null, or a snapshot whose sets may be undefined
NoPrevious == [present |-> FALSE, hasSets |-> FALSE, sets |-> <<>>]
\* what prevSet?.weight and prevSet?.reps give for an undefined prevSet
NoPrevSet == [weight |-> NULL, reps |-> NULL]

PrevSet_First(previous, idx) ==
  IF previous.present /\ previous.hasSets /\ 1 <= Len(previous.sets)
  THEN previous.sets[1]
  ELSE NoPrevSet

\* exercise.previous?.sets?.[idx], idx counted from 1
PrevSet(previous, idx) ==
  IF previous.present /\ previous.hasSets /\ idx <= Len(previous.sets)
  THEN previous.sets[idx]
  ELSE NoPrevSet

Current1rm(set) ==
  IF Truthy(set.actual_weight) /\ Truthy(set.actual_reps)
  THEN estimate1RM(set.actual_weight, set.actual_reps) ELSE 0

Prev1rm(prevSet) ==
  IF Truthy(prevSet.weight) /\ Truthy(prevSet.reps)
  THEN estimate1RM(prevSet.weight, prevSet.reps) ELSE 0

\* isPR={isPR && set.status === 'completed'} of the row of set at index idx
ShownAsPR(set, idx, previous) ==
  LET current1rm == Current1rm(set)
      prev1rm == Prev1rm(PrevSet(previous, idx))
      isPR == current1rm > 0 /\ current1rm > prev1rm
  IN isPR /\ set.status = "completed"

\* the sets and snapshots the rows are rendered with
Statuses == {"pending", "completed", "skipped"}
WeightInputs == {NULL, 0, 50, 60}
RepsInputs == {NULL, 0, 1, 6}
RowSets == [status : Statuses, actual_weight : WeightInputs, actual_reps : RepsInputs]
PrevEntries == {[weight |-> NULL, reps |-> 6], [weight |-> 50, reps |-> 6],
                [weight |-> 60, reps |-> 6], [weight |-> 50, reps |-> 1]}
Snapshots ==
  {NoPrevious, [present |-> TRUE, hasSets |-> FALSE, sets |-> <<>>]}
    \cup {[present |-> TRUE, hasSets |-> TRUE, sets |-> q] :
            q \in UNION {[1..n -> PrevEntries] : n \in 0..MaxSets}}

PRCalls ==
  {Call("isPR", [set |-> ws, idx |-> i, previous |-> pv]) :
     ws \in RowSets, i \in 1..MaxSets, pv \in Snapshots}

\* one row of an ExerciseCard is rendered
renderSetRow ==
  /\ calc.fn = "isPR"
  /\ ~calc.returned
  /\ calc' = [calc EXCEPT !.returned = TRUE,
                          !.output = ShownAsPR(calc.input.set, calc.input.idx,
                                               calc.input.previous)]
  /\ lastOp' = Op("renderSetRow")
  /\ UNCHANGED <<activeSession, elapsedSeconds, restTimer, isFinishing, nextId, calls,
                 screen>>

\* ------------------------------------------------------------------ plate calculator
\* Weights are counted in units of 0.005 kg, in which a multiple of 0.01 kg is
\* an even number and its half a whole one.
Kg(x) == 200 * x

STANDARD_PLATES_KG_No25 == <<Kg(20), Kg(15), Kg(10), Kg(5), 500, 250>>

\* [25, 20, 15, 10, 5, 2.5, 1.25]
STANDARD_PLATES_KG == <<Kg(25), Kg(20), Kg(15), Kg(10), Kg(5), 500, 250>>

\* a weight a double holds exactly: a multiple of 0.25 kg
Representable(w) == w % 50 = 0

\* The double (totalKg - barWeightKg) / 2 is the exact value or, when an
\* argument is not held exactly, a value a fraction of a unit off it; `below`
\* says that it lies below the exact value.  The subtractions of the loop are
\* exact, so the offset stays with remaining to the end.
BelowPossible(totalKg, barWeightKg) ==
  totalKg # barWeightKg /\ ~(Representable(totalKg) /\ Representable(barWeightKg))

\* Math.floor(remaining / plate)
FloorDiv(remaining, plate, below) ==
  IF below /\ remaining % plate = 0
  THEN (remaining \div plate) - 1
  ELSE remaining \div plate

\* Math.round(remaining * 100) / 100
Round2(remaining, below) ==
  IF remaining % 2 = 0 THEN remaining
  ELSE IF below THEN remaining - 1 ELSE remaining + 1

\* for (const plate of STANDARD_PLATES_KG) { ... } from the i-th plate on
RECURSIVE PlateLoop(_, _, _, _)
PlateLoop(i, remaining, perSide, below) ==
  IF i > Len(STANDARD_PLATES_KG)
  THEN [perSide |-> perSide, remainder |-> Round2(remaining, below)]
  ELSE LET plate == STANDARD_PLATES_KG[i]
           count == FloorDiv(remaining, plate, below)
       IN IF count > 0
          THEN PlateLoop(i + 1, remaining - count * plate,
                         Append(perSide, [weight |-> plate, count |-> count]), below)
          ELSE PlateLoop(i + 1, remaining, perSide, below)

calculatePlates(totalKg, barWeightKg, below) ==
  PlateLoop(1, (totalKg - barWeightKg) \div 2, <<>>, below)

\* arguments of calculatePlates: bars of 20 kg and 21.2 kg, every load per
\* side up to MaxLoad, and the totals 100 kg and 140 kg
BarInputs == {Kg(20), 4240}
TotalInputs(bar) == {bar + 2 * k : k \in 0..MaxLoad} \cup {Kg(100), Kg(140)}

PlateCalls ==
  {Call("calculatePlates", [totalKg |-> t, barWeightKg |-> b, below |-> e]) :
     t \in UNION {TotalInputs(b) : b \in BarInputs}, b \in BarInputs, e \in BOOLEAN}

\* calculatePlates is called and returns
runCalculatePlates ==
  /\ calc.fn = "calculatePlates"
  /\ ~calc.returned
  /\ calc' = [calc EXCEPT !.returned = TRUE,
                          !.output = calculatePlates(calc.input.totalKg,
                                                     calc.input.barWeightKg,
                                                     calc.input.below)]
  /\ lastOp' = Op("calculatePlates")
  /\ UNCHANGED <<activeSession, elapsedSeconds, restTimer, isFinishing, nextId, calls,
                 screen>>

\* ------------------------------------------------------------------ inputs
\* an id no generateId() call returned
UnknownId == MaxIds + 1

ExerciseIds == IF activeSession.live
               THEN {activeSession.exercises[i].id : i \in 1..Len(activeSession.exercises)}
               ELSE {}

SetIds == IF activeSession.live
          THEN UNION {{activeSession.exercises[i].sets[j].id :
                          j \in 1..Len(activeSession.exercises[i].sets)} :
                      i \in 1..Len(activeSession.exercises)}
          ELSE {}

ExerciseInputs == ExerciseIds \cup {UnknownId}
SetInputs == SetIds \cup {UnknownId}

\* the ids of the sets of the exercise with id e
SetIdsOf(e) ==
  IF activeSession.live
  THEN UNION {{activeSession.exercises[i].sets[j].id :
                 j \in 1..Len(activeSession.exercises[i].sets)} :
              i \in {i \in 1..Len(activeSession.exercises) :
                       activeSession.exercises[i].id = e}}
  ELSE {}

\* an exercise id that is not in the session, or a set id that is not in the
\* named exercise
MissesExercise(e) == e \notin ExerciseIds
MissesSet(e, s) == e \notin ExerciseIds \/ s \notin SetIdsOf(e)

\* ------------------------------------------------------------------ specification
\* The store as the session screen drives it: every lifecycle operation, the
\* commit, the two clocks, and completeSet, the mutation that decides what a
\* commit writes.  Finish is triggered by the Finish button, which is disabled
\* while isFinishing (session.tsx:381-386), so commits run one at a time here;
\* SpecRace lifts that.
Next ==
  \/ \E u \in UserIds : startFromTemplate(TemplatePush, u)
  \/ \E n \in Names, u \in UserIds : startEmpty(n, u)
  \/ ~isFinishing /\ finishWorkout
  \/ \E c \in 1..Len(calls), o \in Outcomes : workoutInserted(c, o)
  \/ \E c \in 1..Len(calls), o \in Outcomes : exerciseInserted(c, o)
  \/ \E c \in 1..Len(calls), o \in Outcomes : setsInserted(c, o)
  \/ \E c \in 1..Len(calls), o \in Outcomes : templateUpdated(c, o)
  \/ discardWorkout
  \/ \E e \in ExerciseIds, s \in SetIds : completeSet(e, s)
  \/ tickElapsed
  \/ \E n \in 1..MaxRest : startRestTimer(n, NoExercise)
  \/ stopRestTimer
  \/ tickTimer

Spec == Init /\ [][Next]_vars

\* The store's own interface, called with no regard for isFinishing: finish
\* calls overlap with each other and with start and discard.
NextRace ==
  \/ \E u \in UserIds : startFromTemplate(TemplatePush, u)
  \/ \E n \in Names, u \in UserIds : startEmpty(n, u)
  \/ finishWorkout
  \/ \E c \in 1..Len(calls), o \in Outcomes : workoutInserted(c, o)
  \/ \E c \in 1..Len(calls), o \in Outcomes : exerciseInserted(c, o)
  \/ \E c \in 1..Len(calls), o \in Outcomes : setsInserted(c, o)
  \/ \E c \in 1..Len(calls), o \in Outcomes : templateUpdated(c, o)
  \/ discardWorkout
  \/ \E e \in ExerciseIds, s \in SetIds : completeSet(e, s)
  \/ tickElapsed

SpecRace == Init /\ [][NextRace]_vars

\* The session and its mutations: every set and exercise operation, called with
\* the ids of the session and with an unknown id, on sessions started from a
\* template or empty, with no commit in flight.
NextSets ==
  \/ \E t \in Templates, u \in UserIds : startFromTemplate(t, u)
  \/ \E n \in Names, u \in UserIds : startEmpty(n, u)
  \/ discardWorkout
  \/ \E e \in ExerciseInputs, s \in SetInputs : completeSet(e, s)
  \/ \E e \in ExerciseInputs, s \in SetInputs, u \in SetUpdates : updateSet(e, s, u)
  \/ \E e \in ExerciseInputs, s \in SetInputs : removeSet(e, s)
  \/ \E e \in ExerciseInputs : addSet(e)
  \/ \E e \in ExerciseInputs, n \in NotesInputs : updateExerciseNotes(e, n)
  \/ \E e \in ExerciseInputs : removeExercise(e)

SpecSets == Init /\ [][NextSets]_vars

\* The rest timer and the session screen that drives it: the screen is mounted
\* and unmounted, rest periods are started, extended, skipped and discarded,
\* the interval the effect holds ticks the timer, and the effect runs as soon
\* as isRunning has changed.
NextRest ==
  \/ ~EffectPending /\ screen.vibrations < MaxVibrations /\ mountSession
  \/ ~EffectPending /\ unmountSession
  \/ restEffect
  \/ /\ ~EffectPending
     /\ screen.vibrations < MaxVibrations
     /\ \E n \in 1..MaxCountdown, e \in RestExercises : startRestTimer(n, e)
  \/ ~EffectPending /\ restTimer.remaining + Add30 <= MaxSeconds /\ onAdd30
  \/ ~EffectPending /\ stopRestTimer
  \/ ~EffectPending /\ screen.interval /\ tickTimer
  \/ ~EffectPending /\ discardWorkout

SpecRest == Init /\ [][NextRest]_vars

\* the PR indicator of a row, on each set, index and snapshot
InitPR == InitStore /\ calc \in PRCalls

NextPR == renderSetRow

SpecPR == InitPR /\ [][NextPR]_vars

\* calculatePlates on each of its inputs
InitPlates ==
  /\ InitStore
  /\ calc \in {c \in PlateCalls :
                 /\ c.input.totalKg \in TotalInputs(c.input.barWeightKg)
                 /\ c.input.below => BelowPossible(c.input.totalKg, c.input.barWeightKg)}

NextPlates == runCalculatePlates

SpecPlates == InitPlates /\ [][NextPlates]_vars

\* Sessions started one after the other, from each template, with the elapsed
\* clock running and sets being completed in between.
NextStart ==
  \/ \E t \in Templates \cup {TemplateSolo}, u \in UserIds : startFromTemplate(t, u)
  \/ \E e \in ExerciseIds, s \in SetIds : completeSet(e, s)
  \/ \E e \in ExerciseIds, s \in SetIds, u \in SetUpdates : updateSet(e, s, u)
  \/ tickElapsed
  \/ discardWorkout

SpecStart == Init /\ [][NextStart]_vars

\* The mutations called with ids that name nothing: on sessions whose sets
\* completeSet and updateSet have changed, every mutation is called with an
\* exercise id that is not in the session or a set id of another exercise.
NextMiss ==
  \/ \E t \in Templates, u \in UserIds : startFromTemplate(t, u)
  \/ \E e \in ExerciseInputs, s \in SetInputs : completeSet(e, s)
  \/ \E e \in ExerciseInputs, s \in SetInputs, u \in SetUpdates : updateSet(e, s, u)
  \/ \E e \in ExerciseInputs, s \in SetInputs : MissesSet(e, s) /\ removeSet(e, s)
  \/ \E e \in ExerciseInputs : MissesExercise(e) /\ addSet(e)
  \/ \E e \in ExerciseInputs, n \in NotesInputs :
       MissesExercise(e) /\ updateExerciseNotes(e, n)
  \/ \E e \in ExerciseInputs : MissesExercise(e) /\ removeExercise(e)

SpecMiss == Init /\ [][NextMiss]_vars

\* An exercise's set list as it grows and shrinks: a one-set session, sets
\* added, completed and removed.
NextGrow ==
  \/ \E u \in UserIds : startFromTemplate(TemplateSolo, u)
  \/ \E e \in ExerciseInputs : addSet(e)
  \/ \E e \in ExerciseIds, s \in SetIds : removeSet(e, s)
  \/ \E e \in ExerciseIds, s \in SetIds : completeSet(e, s)

SpecGrow == Init /\ [][NextGrow]_vars

\* The two clocks next to each other: the elapsed clock and the rest timer are
\* started, ticked and stopped on a one-set session, between changes to its
\* sets and exercises and, once Finish is pressed, while the header write of the
\* commit is in flight; the write is refused, which leaves the session live.
NextClocks ==
  \/ \E u \in UserIds : ~isFinishing /\ startFromTemplate(TemplateSolo, u)
  \/ ~isFinishing /\ finishWorkout
  \/ \E c \in 1..Len(calls) : workoutInserted(c, "error")
  \/ \E e \in ExerciseIds, s \in SetIds : ~isFinishing /\ completeSet(e, s)
  \/ \E e \in ExerciseIds, s \in SetIds :
       ~isFinishing /\ updateSet(e, s, [status |-> "pending"])
  \/ \E e \in ExerciseIds, s \in SetIds : ~isFinishing /\ removeSet(e, s)
  \/ \E e \in ExerciseIds :
       ~isFinishing /\ Cardinality(SetIds) < MaxSets /\ addSet(e)
  \/ \E e \in ExerciseIds, n \in NotesInputs : ~isFinishing /\ updateExerciseNotes(e, n)
  \/ \E e \in ExerciseIds : ~isFinishing /\ removeExercise(e)
  \/ tickElapsed
  \/ \E n \in 1..MaxRest : startRestTimer(n, NoExercise)
  \/ stopRestTimer
  \/ tickTimer

SpecClocks == Init /\ [][NextClocks]_vars

\* One session handed over to the next while a commit is in flight: sessions are
\* started only when none is live, as the workouts screen does, and Finish is
\* pressed only while no commit is shown as running, so a session other than
\* the one being committed is live only after that one was discarded.
NextHandoff ==
  \/ \E u \in UserIds : ~activeSession.live /\ startFromTemplate(TemplatePush, u)
  \/ \E n \in Names, u \in UserIds : ~activeSession.live /\ startEmpty(n, u)
  \/ ~isFinishing /\ finishWorkout
  \/ \E c \in 1..Len(calls), o \in Outcomes : workoutInserted(c, o)
  \/ \E c \in 1..Len(calls), o \in Outcomes : exerciseInserted(c, o)
  \/ \E c \in 1..Len(calls), o \in Outcomes : setsInserted(c, o)
  \/ \E c \in 1..Len(calls), o \in Outcomes : templateUpdated(c, o)
  \/ discardWorkout
  \/ \E e \in ExerciseIds, s \in SetIds : completeSet(e, s)
  \/ tickElapsed

SpecHandoff == Init /\ [][NextHandoff]_vars

\* The handover with a storage client that answers: every request a commit is
\* awaiting is resolved in the end, with success or with failure.
WritesReturn ==
  /\ WF_vars(\E c \in 1..Len(calls), o \in Outcomes : workoutInserted(c, o))
  /\ WF_vars(\E c \in 1..Len(calls), o \in Outcomes : exerciseInserted(c, o))
  /\ WF_vars(\E c \in 1..Len(calls), o \in Outcomes : setsInserted(c, o))
  /\ WF_vars(\E c \in 1..Len(calls), o \in Outcomes : templateUpdated(c, o))

SpecReturns == Init /\ [][NextHandoff]_vars /\ WritesReturn

\* ------------------------------------------------------------------ properties
\* the requests of one table in a call's log
RowsOf(c, table) ==
  {calls[c].writes[k].row : k \in {k \in 1..Len(calls[c].writes) :
                                     calls[c].writes[k].table = table}}

\* every set of a session, with the exercise that holds it
AllSets(session) ==
  UNION {{[ex |-> session.exercises[i].id, ws |-> session.exercises[i].sets[j]] :
            j \in 1..Len(session.exercises[i].sets)} :
         i \in 1..Len(session.exercises)}


\* C1: starting a session while one is live is rejected: a startEmpty or
\* startFromTemplate call made with a live session leaves that session and the
\* elapsed clock as they were.
C1_StartRejectedWhileLive ==
  [][(activeSession.live /\ lastOp'.op \in {"startEmpty", "startFromTemplate"})
       => (activeSession' = activeSession /\ elapsedSeconds' = elapsedSeconds)]_vars

\* C2: a finishWorkout call made while another is in flight starts no second
\* commit: no two calls in flight have issued the header write of one session.
C2_OneCommitSequence ==
  \A c1, c2 \in 1..Len(calls) :
    (c1 < c2 /\ InFlight(c1) /\ InFlight(c2))
      => calls[c1].writes[1].row.id # calls[c2].writes[1].row.id

\* C3: when the header write of call c fails, the call returns failed with the
\* session and the elapsed clock as they were and isFinishing false, and it has
\* issued nothing but the header write.
C3_HeaderFailureAborts ==
  [][\A c \in 1..Len(calls) :
       lastOp' = Resolution("workoutInserted", c, "error")
         => /\ activeSession' = activeSession
            /\ elapsedSeconds' = elapsedSeconds
            /\ isFinishing' = FALSE
            /\ calls'[c].pc = "failed"
            /\ calls'[c].issued = 1]_vars

C3_Witness ==
  \E c \in 1..Len(calls) :
    /\ lastOp = Resolution("workoutInserted", c, "error")
    /\ calls[c].pc = "failed"
    /\ activeSession.live
    /\ \E x \in AllSets(activeSession) : x.ws.status = "completed"
    /\ elapsedSeconds > 0
    /\ ~isFinishing

\* C4: once its header write has succeeded a call never fails, whatever the
\* later writes resolve to, and the step that ends it leaves activeSession
\* null, elapsedSeconds 0 and isFinishing false.
C4_OnlyHeaderFailureSurfaces ==
  [][\A c \in 1..Len(calls) :
       (InFlight(c) /\ lastOp'.call = c
          /\ lastOp' # Resolution("workoutInserted", c, "error"))
         => /\ calls'[c].pc \in {"awaitExercise", "awaitSets", "awaitTemplate", "done"}
            /\ calls'[c].pc = "done"
                 => (activeSession' = NoSession /\ elapsedSeconds' = 0
                       /\ isFinishing' = FALSE)]_vars

C4_Witness ==
  \E c \in 1..Len(calls) :
    /\ calls[c].pc = "done"
    /\ lastOp.call = c
    /\ lastOp.op \in {"setsInserted", "templateUpdated"}
    /\ lastOp.outcome = "error"
    /\ activeSession = NoSession /\ elapsedSeconds = 0 /\ ~isFinishing

\* C5: when the header write of a completed exercise fails, the next request of
\* the call is the header write of the next completed exercise when there is
\* one, and none or the template update otherwise: never a set batch, never the
\* same exercise again.
C5_FailedExerciseSkipsSets ==
  [][\A c \in 1..Len(calls) :
       lastOp' = Resolution("exerciseInserted", c, "error")
         => LET before == calls[c].writes
                failed == before[Len(before)].row.id
                rest == {x \in AllSets(calls[c].session) :
                           /\ x.ws.status = "completed"
                           /\ \A k \in 1..Len(before) :
                                before[k].table = "workout_exercises"
                                  => before[k].row.id # x.ex}
            IN IF calls'[c].pc \in {"done", "failed"}
               THEN calls'[c].pc = "done" /\ calls'[c].issued = Len(before) /\ rest = {}
               ELSE LET after == calls'[c].writes
                        new == after[Len(after)]
                    IN /\ Len(after) = Len(before) + 1
                       /\ new.table # "workout_sets"
                       /\ new.table = "workout_exercises"
                            => new.row.id # failed /\ new.row.id \in {x.ex : x \in rest}
                       /\ new.table = "templates" => rest = {}]_vars

C5_Witness ==
  \E c \in 1..Len(calls) :
    /\ lastOp = Resolution("exerciseInserted", c, "error")
    /\ calls[c].pc = "awaitExercise"
    /\ calls[c].idx = 2
    /\ Len(calls[c].writes) = 3

\* C6: the exercise rows a finish writes are the exercises of the committed
\* session that hold a completed set, each once, and a set batch holds the
\* completed sets of its exercise and no other set.
C6_RowsAreCompleted ==
  \A c \in 1..Len(calls) :
    InFlight(c) =>
      LET done == {x \in AllSets(calls[c].session) : x.ws.status = "completed"} IN
      /\ \A r \in RowsOf(c, "workout_exercises") : r.id \in {x.ex : x \in done}
      /\ \A k1, k2 \in 1..Len(calls[c].writes) :
           (k1 < k2 /\ calls[c].writes[k1].table = "workout_exercises"
                    /\ calls[c].writes[k2].table = "workout_exercises")
             => calls[c].writes[k1].row.id # calls[c].writes[k2].row.id
      /\ \A b \in RowsOf(c, "workout_sets") :
           /\ Len(b) > 0
           /\ {b[k].id : k \in 1..Len(b)}
                = {x.ws.id : x \in {y \in done : y.ex = b[1].workout_exercise_id}}
           /\ \A k1, k2 \in 1..Len(b) : k1 # k2 => b[k1].id # b[k2].id

C6_AllWrittenAtEnd ==
  \A c \in 1..Len(calls) :
    (InFlight(c) /\ calls'[c].pc = "done")
      => /\ {r.id : r \in RowsOf(c, "workout_exercises")}
              = {x.ex : x \in {y \in AllSets(calls[c].session) : y.ws.status = "completed"}}
         /\ calls'[c].issued = Len(calls[c].writes)

C6_OnlyCompletedWritten == []C6_RowsAreCompleted /\ [][C6_AllWrittenAtEnd]_vars

C6_Witness ==
  \E c \in 1..Len(calls) :
    /\ calls[c].pc = "awaitTemplate"
    /\ Len(calls[c].session.exercises) = 2
    /\ Cardinality(RowsOf(c, "workout_exercises")) = 1
    /\ \E b \in RowsOf(c, "workout_sets") : Len(b) = 1
    /\ \E x \in AllSets(calls[c].session) :
         x.ws.status = "pending" /\ x.ex \in {r.id : r \in RowsOf(c, "workout_exercises")}

\* C7: the total volume of the header row is the sum of actual_weight times
\* actual_reps over the sets that are completed when finish is called, null
\* counting as zero; the row's duration is the elapsed clock at that moment.
Contribution(x) ==
  IF x.ws.status # "completed" THEN 0
  ELSE (IF x.ws.actual_weight = NULL THEN 0 ELSE x.ws.actual_weight)
       * (IF x.ws.actual_reps = NULL THEN 0 ELSE x.ws.actual_reps)

RECURSIVE SumContributions(_)
SumContributions(S) ==
  IF S = {} THEN 0
  ELSE LET x == CHOOSE y \in S : TRUE IN Contribution(x) + SumContributions(S \ {x})

ExpectedVolume(session) == SumContributions(AllSets(session))

C7_HeaderVolume ==
  [][(lastOp'.op = "finishWorkout" /\ Len(calls') = Len(calls) + 1 /\ activeSession.live)
       => LET header == calls'[Len(calls')].writes[1] IN
          /\ header.table = "workouts"
          /\ header.row.id = activeSession.id
          /\ header.row.total_volume_kg = ExpectedVolume(activeSession)
          /\ header.row.duration_seconds = elapsedSeconds]_vars

C7_Witness ==
  \E c \in 1..Len(calls) :
    /\ calls[c].pc = "awaitWorkout"
    /\ calls[c].writes[1].row.total_volume_kg = 500
    /\ \E x \in AllSets(calls[c].session) :
         x.ws.status = "completed" /\ x.ws.actual_reps = NULL
    /\ \E x \in AllSets(calls[c].session) :
         x.ws.status = "pending" /\ x.ws.actual_weight # NULL /\ x.ws.actual_reps # NULL

\* C8: discardWorkout, from any state, leaves activeSession null, elapsedSeconds
\* 0 and the rest timer stopped at zero, and issues no request to the storage.
C8_DiscardResets ==
  [][lastOp'.op = "discardWorkout"
       => /\ activeSession' = NoSession
          /\ elapsedSeconds' = 0
          /\ restTimer' = [isRunning |-> FALSE, remaining |-> 0, total |-> 0,
                           exerciseId |-> NoExercise]
          /\ calls' = calls]_vars

C8_Witness ==
  /\ lastOp.op = "discardWorkout"
  /\ \E c \in 1..Len(calls) : InFlight(c) /\ Len(calls[c].writes) > 1
  /\ isFinishing

\* C9: a discardWorkout call made while isFinishing is true is rejected: it
\* leaves the session, the elapsed clock and the rest timer as they were.
C9_DiscardRejectedWhileFinishing ==
  [][(isFinishing /\ lastOp'.op = "discardWorkout")
       => (activeSession' = activeSession /\ elapsedSeconds' = elapsedSeconds
             /\ restTimer' = restTimer)]_vars

\* C10: completing a set is one-way: a completed set that is still in the
\* session after a step is still completed.
C10_CompletedStaysCompleted ==
  [][(activeSession.live /\ activeSession'.live /\ activeSession'.id = activeSession.id)
       => \A x \in AllSets(activeSession), y \in AllSets(activeSession') :
            (x.ws.status = "completed" /\ y.ws.id = x.ws.id)
              => y.ws.status = "completed"]_vars

\* C11: updateSet applied to a completed set leaves the set's actual_weight and
\* actual_reps as they were.
C11_CompletedActualsFrozen ==
  [][(activeSession.live /\ lastOp'.op = "updateSet")
       => \A x \in AllSets(activeSession), y \in AllSets(activeSession') :
            (x.ws.status = "completed" /\ y.ws.id = x.ws.id)
              => /\ y.ws.actual_weight = x.ws.actual_weight
                 /\ y.ws.actual_reps = x.ws.actual_reps]_vars

C13_AddSetAppends ==
  [][activeSession.live =>
       \A e \in ExerciseIds :
         addSet(e) =>
           /\ Len(activeSession'.exercises) = Len(activeSession.exercises)
           /\ \A i \in 1..Len(activeSession.exercises) :
                LET old == activeSession.exercises[i].sets
                    new == activeSession'.exercises[i].sets
                IN IF activeSession.exercises[i].id # e
                   THEN activeSession'.exercises[i] = activeSession.exercises[i]
                   ELSE /\ Len(new) = Len(old) + 1
                        /\ \A j \in 1..Len(old) : new[j] = old[j]
                        /\ new[Len(new)].status = "pending"
                        /\ new[Len(new)].set_number = Len(old) + 1
                        /\ new[Len(new)].target_weight =
                             (IF Len(old) = 0 THEN NULL ELSE old[Len(old)].target_weight)
                        /\ new[Len(new)].target_reps =
                             (IF Len(old) = 0 THEN NULL ELSE old[Len(old)].target_reps)
                        /\ new[Len(new)].id \notin {old[j].id : j \in 1..Len(old)}]_vars

C13_Witness ==
  /\ lastOp.op = "addSet"
  /\ activeSession.live
  /\ \E i \in 1..Len(activeSession.exercises) :
       LET sets == activeSession.exercises[i].sets IN
       /\ Len(sets) = 2
       /\ sets[2].status = "pending"
       /\ sets[2].set_number = 2
       /\ sets[2].target_weight = 40 /\ sets[2].target_reps = 8
       /\ sets[1].target_weight = 40

\* C14: in every state each set's set_number is its 1-based position in the
\* set list of its exercise.
C14_SetNumberIsPosition ==
  activeSession.live =>
    \A i \in 1..Len(activeSession.exercises) :
      \A j \in 1..Len(activeSession.exercises[i].sets) :
        activeSession.exercises[i].sets[j].set_number = j

\* C15: in every state the order fields of the session's exercises are
\* 0..m-1 in list order.
C15_OrderIsDense ==
  activeSession.live =>
    \A i \in 1..Len(activeSession.exercises) :
      activeSession.exercises[i].order = i - 1

\* C16: the session startFromTemplate builds has one exercise per template
\* exercise and one set per template set, in the template's order; every set
\* is pending, numbered by its position, carries the template set's targets as
\* its targets and as its actuals, and the tag normal when the template set has
\* none; the elapsed clock is 0 and pr_events is empty.
C16_SessionMirrorsTemplate ==
  lastOp.op = "startFromTemplate" =>
    /\ activeSession.live
    /\ elapsedSeconds = 0
    /\ activeSession.pr_events = <<>>
    /\ \E t \in Templates \cup {TemplateSolo} :
         /\ activeSession.template_id = t.id
         /\ activeSession.name = t.name
         /\ Len(activeSession.exercises) = Len(t.exercises)
         /\ \A k \in 1..Len(t.exercises) :
              LET te == t.exercises[k]
                  ex == activeSession.exercises[k]
              IN /\ ex.exercise_id = te.exercise_id
                 /\ Len(ex.sets) = Len(te.sets)
                 /\ \A j \in 1..Len(te.sets) :
                      /\ ex.sets[j].status = "pending"
                      /\ ex.sets[j].set_number = j
                      /\ ex.sets[j].target_weight = te.sets[j].target_weight
                      /\ ex.sets[j].target_reps = te.sets[j].target_reps
                      /\ ex.sets[j].actual_weight = te.sets[j].target_weight
                      /\ ex.sets[j].actual_reps = te.sets[j].target_reps
                      /\ ex.sets[j].tag =
                           (IF te.sets[j].tag = NoTag THEN "normal" ELSE te.sets[j].tag)

C16_Witness ==
  /\ lastOp.op = "startFromTemplate"
  /\ activeSession.live
  /\ Len(activeSession.exercises) = 2
  /\ activeSession.exercises[1].sets[1].tag = "normal"
  /\ activeSession.exercises[1].sets[2].tag = "drop"
  /\ activeSession.exercises[1].sets[2].actual_weight = 80
  /\ activeSession.exercises[1].sets[2].actual_reps = NULL
  /\ activeSession.exercises[2].sets[1].actual_reps = 3

\* startFromTemplate with a template of no exercises, after another session
C16_WitnessBlank ==
  /\ lastOp.op = "startFromTemplate"
  /\ nextId > 2
  /\ activeSession.live
  /\ activeSession.template_id = "t0"
  /\ activeSession.exercises = <<>>

\* C17: startRestTimer(n, e), from any rest-timer state, leaves the timer
\* running with remaining n, total n and exercise e; the +30s button leaves
\* remaining and total at the remaining there was plus 30.
C17_StartReplaces ==
  [][/\ \A n \in 1..MaxSeconds, e \in RestExercises :
          startRestTimer(n, e)
            => restTimer' = [isRunning |-> TRUE, remaining |-> n, total |-> n,
                             exerciseId |-> e]
     /\ onAdd30 => /\ restTimer'.isRunning
                   /\ restTimer'.remaining = restTimer.remaining + 30
                   /\ restTimer'.total = restTimer.remaining + 30]_vars

\* a running countdown that was ticked and then extended by +30s
C17_Witness ==
  /\ lastOp.op = "startRestTimer"
  /\ restTimer.isRunning
  /\ restTimer.remaining = 32
  /\ restTimer.total = 32
  /\ screen.interval

\* C18: a tick of a running timer takes exactly 1 off remaining and keeps
\* total; the timer runs after the tick exactly when remaining is still above
\* zero, so it stops with remaining 0 at the tick that reaches zero; a stopped
\* timer runs again only through startRestTimer.
C18_TickStep ==
  /\ (lastOp'.op = "tickTimer" /\ restTimer.isRunning)
       => /\ restTimer'.remaining = restTimer.remaining - 1
          /\ restTimer'.total = restTimer.total
          /\ restTimer'.exerciseId = restTimer.exerciseId
          /\ restTimer'.isRunning = (restTimer'.remaining > 0)
  /\ (~restTimer.isRunning /\ restTimer'.isRunning) => lastOp'.op = "startRestTimer"

\* after startRestTimer(n) and k ticks the timer stands at n - k: it runs while
\* k < n and is stopped at zero when k = n
C18_TicksSinceStart ==
  /\ restTimer.isRunning => (restTimer.remaining >= 1 /\ restTimer.remaining <= restTimer.total)
  /\ lastOp.op = "tickTimer"
       => /\ restTimer.remaining < restTimer.total
          /\ restTimer.isRunning = (restTimer.remaining > 0)

C18_CountdownToZero == []C18_TicksSinceStart /\ [][C18_TickStep]_vars

\* the third tick after startRestTimer(3)
C18_Witness ==
  /\ lastOp.op = "tickTimer"
  /\ ~restTimer.isRunning
  /\ restTimer.remaining = 0
  /\ restTimer.total = 3

\* C19: stopRestTimer, from any rest-timer state, leaves the timer not running
\* with remaining 0, total 0 and no exercise; a second call right after the
\* first changes nothing.
C19_StopStep ==
  /\ stopRestTimer
       => restTimer' = [isRunning |-> FALSE, remaining |-> 0, total |-> 0,
                        exerciseId |-> NoExercise]
  /\ (lastOp.op = "stopRestTimer" /\ stopRestTimer) => restTimer' = restTimer

C19_StopIsTerminal ==
  [](lastOp.op = "stopRestTimer"
       => (~restTimer.isRunning /\ restTimer.remaining = 0 /\ restTimer.total = 0
             /\ restTimer.exerciseId = NoExercise))
  /\ [][C19_StopStep]_vars

\* stopRestTimer was called on a running timer of the mounted screen
C19_Witness ==
  /\ lastOp.op = "stopRestTimer"
  /\ screen.mounted
  /\ screen.seenRunning
  /\ screen.interval
  /\ ~restTimer.isRunning /\ restTimer.remaining = 0 /\ restTimer.total = 0

\* C20: the rest-finished vibration fires at the run of the effect that follows
\* the tick that stopped the timer, and at no other step.
C20_VibratesOncePerCompletion ==
  [][(screen'.vibrations # screen.vibrations)
       <=> (EffectPending /\ lastOp.op = "tickTimer" /\ lastOp' = lastOp)]_vars

\* the weight of the plates of one side
RECURSIVE PerSideWeight(_)
PerSideWeight(perSide) ==
  IF perSide = <<>> THEN 0
  ELSE Head(perSide).weight * Head(perSide).count + PerSideWeight(Tail(perSide))

\* C23: for every total >= bar, calculatePlates returns per-side plates with
\* bar + 2 x (per-side weight) <= total and a remainder equal to
\* (total - bar) / 2 minus the per-side weight, at least 0 and below the
\* smallest plate, 1.25 kg.
C23_PlatesWithinTotal ==
  (calc.fn = "calculatePlates" /\ calc.returned) =>
    LET side == PerSideWeight(calc.output.perSide)
        load == (calc.input.totalKg - calc.input.barWeightKg) \div 2
    IN /\ calc.input.barWeightKg + 2 * side <= calc.input.totalKg
       /\ calc.output.remainder = load - side
       /\ calc.output.remainder >= 0
       /\ calc.output.remainder < 250

\* C24: calculatePlates(100, 20) returns the per-side plates 20, 15 and 5, one
\* each, with remainder 0.
C24_ScenarioE_TwentyFifteenFive ==
  (calc.fn = "calculatePlates" /\ calc.returned
     /\ calc.input.totalKg = Kg(100) /\ calc.input.barWeightKg = Kg(20))
    => /\ calc.output.perSide = << [weight |-> Kg(20), count |-> 1],
                                   [weight |-> Kg(15), count |-> 1],
                                   [weight |-> Kg(5), count |-> 1] >>
       /\ calc.output.remainder = 0

\* C24 as amended: calculatePlates(100, 20) returns the per-side plates 25 and
\* 15, one each (40 kg per side), with remainder 0.
C24_ScenarioE_TwentyFiveFifteen ==
  (calc.fn = "calculatePlates" /\ calc.returned
     /\ calc.input.totalKg = Kg(100) /\ calc.input.barWeightKg = Kg(20))
    => /\ calc.output.perSide = << [weight |-> Kg(25), count |-> 1],
                                   [weight |-> Kg(15), count |-> 1] >>
       /\ PerSideWeight(calc.output.perSide) = Kg(40)
       /\ calc.output.remainder = 0

C24_Witness ==
  /\ calc.fn = "calculatePlates"
  /\ calc.returned
  /\ calc.input.totalKg = Kg(100)
  /\ calc.input.barWeightKg = Kg(20)
  /\ Len(calc.output.perSide) = 2

\* C21: a set is shown as a PR iff it is completed, its estimated 1RM (0 when
\* weight or reps is missing or zero) is above zero, and it is above the
\* estimated 1RM of the set at the same index of the previous snapshot, which
\* counts as 0 when the snapshot or its set at that index is absent.
C21_ShownAsPRIff ==
  (calc.fn = "isPR" /\ calc.returned) =>
    LET ws == calc.input.set
        pv == calc.input.previous
        i == calc.input.idx
        missing(x) == x = NULL \/ x = 0
        current == IF missing(ws.actual_weight) \/ missing(ws.actual_reps) THEN 0
                   ELSE estimate1RM(ws.actual_weight, ws.actual_reps)
        absent == ~pv.present \/ ~pv.hasSets \/ i > Len(pv.sets)
        prev == IF absent THEN 0
                ELSE IF missing(pv.sets[i].weight) \/ missing(pv.sets[i].reps) THEN 0
                ELSE estimate1RM(pv.sets[i].weight, pv.sets[i].reps)
    IN calc.output <=> (ws.status = "completed" /\ current > 0 /\ current > prev)

\* a completed second set that beats the second set of the snapshot and not
\* the first
C21_Witness ==
  /\ calc.fn = "isPR"
  /\ calc.returned
  /\ calc.output
  /\ calc.input.idx = 2
  /\ calc.input.set.status = "completed"
  /\ Len(calc.input.previous.sets) = 2
  /\ Prev1rm(calc.input.previous.sets[1]) > Current1rm(calc.input.set)
  /\ Prev1rm(calc.input.previous.sets[2]) > 0

\* C22: when completeSet completes a set that is a PR (its estimated 1RM is
\* above zero and above that of the snapshot, which the store leaves null), an
\* event naming that set with its estimated 1RM is in the session's pr_events
\* after the call, and the events recorded before the call are still there.
C22_PREventsRecorded ==
  [][\A e \in ExerciseIds, s \in SetIds :
       completeSet(e, s) =>
         /\ \A x \in AllSets(activeSession') :
              (x.ex = e /\ x.ws.id = s /\ ShownAsPR(x.ws, 1, NoPrevious)) =>
                \E k \in 1..Len(activeSession'.pr_events) :
                  /\ activeSession'.pr_events[k].set_id = s
                  /\ activeSession'.pr_events[k].estimated_1rm = Current1rm(x.ws)
         /\ Len(activeSession'.pr_events) >= Len(activeSession.pr_events)
         /\ SubSeq(activeSession'.pr_events, 1, Len(activeSession.pr_events))
              = activeSession.pr_events]_vars

\* the positions of a call's log that hold a request to table
WritesTo(c, table) ==
  {k \in 1..Len(calls[c].writes) : calls[c].writes[k].table = table}

\* the log of a call in flight: the header first and once, a set batch right
\* after the header of its exercise, the exercises in session order, the
\* template update last, for a session with a template and after every
\* completed exercise; the last request is the one awaited
OrderedLog(c) ==
  LET log == calls[c].writes
      ces == CompletedExercises(calls[c].session)
      exs == SelectSeq(log, LAMBDA w : w.table = "workout_exercises")
  IN /\ Len(log) >= 1
     /\ Len(log) = calls[c].issued
     /\ WritesTo(c, "workouts") = {1}
     /\ \A k \in WritesTo(c, "workout_sets") :
          /\ log[k - 1].table = "workout_exercises"
          /\ \A j \in 1..Len(log[k].row) :
               log[k].row[j].workout_exercise_id = log[k - 1].row.id
     /\ Len(exs) <= Len(ces)
     /\ \A i \in 1..Len(exs) : exs[i].row.id = ces[i].id
     /\ \A k \in WritesTo(c, "templates") :
          /\ k = Len(log)
          /\ calls[c].session.template_id # NoTemplate
          /\ Len(exs) = Len(ces)
     /\ calls[c].pc = CASE log[Len(log)].table = "workouts" -> "awaitWorkout"
                        [] log[Len(log)].table = "workout_exercises" -> "awaitExercise"
                        [] log[Len(log)].table = "workout_sets" -> "awaitSets"
                        [] OTHER -> "awaitTemplate"

\* a request is issued by a call only when its previous request has returned;
\* after the header only if the header succeeded, and a set batch only if the
\* exercise header succeeded; a failed header ends the call with one request
IssuedInTurn(c) ==
  /\ (InFlight(c) /\ calls'[c].issued > calls[c].issued) =>
       /\ calls'[c].issued = calls[c].issued + 1
       /\ lastOp'.call = c
       /\ calls[c].pc = "awaitWorkout" => lastOp'.outcome = "ok"
       /\ calls'[c].pc = "awaitSets" =>
            lastOp' = Resolution("exerciseInserted", c, "ok")
  /\ lastOp' = Resolution("workoutInserted", c, "error") =>
       calls'[c] = Ended("failed", 1)

\* C25: the commit writes are serialized in order: the session header first,
\* nothing after a failed header, a set batch only after its exercise's header
\* has succeeded, exercises one at a time in session order, and the template
\* update only for a session with a template and after all exercise and set
\* writes have returned.
C25_WritesSerialized ==
  /\ [](\A c \in 1..Len(calls) : InFlight(c) => OrderedLog(c))
  /\ [][\A c \in 1..Len(calls) : IssuedInTurn(c)]_vars

\* a commit that has written the header, both exercises with their set batches
\* and is awaiting the template update
C25_Witness ==
  \E c \in 1..Len(calls) :
    /\ calls[c].pc = "awaitTemplate"
    /\ Cardinality(WritesTo(c, "workout_exercises")) = 2
    /\ Cardinality(WritesTo(c, "workout_sets")) = 2

RestOps == {"startRestTimer", "stopRestTimer", "tickTimer"}
MutationOps == {"completeSet", "updateSet", "removeSet", "addSet", "updateExerciseNotes",
                "removeExercise"}

\* C26: the two clocks are independent: the rest-timer operations leave
\* elapsedSeconds and the session as they are; tickElapsed adds exactly 1, can
\* be taken in every state of a live session whatever the rest timer and
\* isFinishing are (up to the bound of the clock), and leaves the rest timer
\* and the session as they are; no set or exercise mutation changes a clock.
C26_ClocksIndependent ==
  /\ [](elapsedSeconds < MaxElapsed => ENABLED tickElapsed)
  /\ [][/\ lastOp'.op \in RestOps => UNCHANGED <<elapsedSeconds, activeSession>>
        /\ lastOp'.op = "tickElapsed" =>
             /\ elapsedSeconds' = elapsedSeconds + 1
             /\ UNCHANGED <<restTimer, activeSession, isFinishing>>
        /\ lastOp'.op \in MutationOps => UNCHANGED <<elapsedSeconds, restTimer>>]_vars

\* the elapsed clock has ticked in a live session with the rest timer running
\* and a commit in flight
C26_Witness ==
  /\ lastOp.op = "tickElapsed"
  /\ activeSession.live
  /\ elapsedSeconds = 1
  /\ restTimer.isRunning
  /\ restTimer.remaining > 0
  /\ isFinishing

\* C27: a finish clears only the session it committed: when a call returns
\* while a session other than the one it committed is live, that session stays
\* live with its exercises and its elapsed clock as they were.
C27_FinishSparesNewerSession ==
  [][\A c \in 1..Len(calls) :
       (/\ InFlight(c)
        /\ ~InFlight(c)'
        /\ activeSession.live
        /\ activeSession.id # calls[c].session.id)
         => UNCHANGED <<activeSession, elapsedSeconds>>]_vars

\* every request in the log of call c is the row computed from the session and
\* the clock the call read when it started
LogFromSnapshot(c) ==
  LET log == calls[c].writes
      snapshot == calls[c].session
      ces == CompletedExercises(snapshot)
  IN /\ log[1].row = WorkoutRow(snapshot, calls[c].elapsed)
     /\ \A k \in WritesTo(c, "workout_exercises") :
          \E i \in 1..Len(ces) : log[k].row = ExerciseRow(snapshot, ces[i])
     /\ \A k \in WritesTo(c, "workout_sets") :
          \E i \in 1..Len(ces) :
            /\ ces[i].id = log[k - 1].row.id
            /\ log[k].row = SetRows(ces[i])
     /\ \A k \in WritesTo(c, "templates") : log[k].row.id = snapshot.template_id

\* the snapshot is the store's session and clock at the call, it stays as it
\* is while the call is in flight, requests already issued are not changed,
\* and the successful end of the call clears the store
SnapshotKept ==
  /\ (lastOp'.op = "finishWorkout" /\ activeSession.live /\ Len(calls') > Len(calls)) =>
       /\ calls'[Len(calls')].session = activeSession
       /\ calls'[Len(calls')].elapsed = elapsedSeconds
  /\ \A c \in 1..Len(calls) :
       /\ (InFlight(c) /\ InFlight(c)') =>
            /\ calls'[c].session = calls[c].session
            /\ calls'[c].elapsed = calls[c].elapsed
            /\ SubSeq(calls'[c].writes, 1, Len(calls[c].writes)) = calls[c].writes
       /\ (InFlight(c) /\ calls'[c].pc = "done") =>
            ~activeSession'.live /\ elapsedSeconds' = 0

\* C28: finishWorkout commits the session as it was when it was called: the
\* header and every exercise and set row are computed from the snapshot read
\* at the start of the call, a mutation or tick applied while the commit is in
\* flight changes no written record, and it is gone when the successful finish
\* clears the session.
C28_CommitsSnapshot ==
  /\ [](\A c \in 1..Len(calls) : InFlight(c) => LogFromSnapshot(c))
  /\ [][SnapshotKept]_vars

\* a set batch has been issued after a further set of that exercise was
\* completed and the clock ticked in the live session: the batch is shorter
\* than the exercise's completed sets are now
C28_Witness ==
  \E c \in 1..Len(calls) :
    /\ calls[c].pc = "awaitSets"
    /\ activeSession.live
    /\ activeSession.id = calls[c].session.id
    /\ elapsedSeconds > calls[c].elapsed
    /\ \E i \in 1..Len(activeSession.exercises) :
         /\ activeSession.exercises[i].id
              = calls[c].writes[Len(calls[c].writes) - 1].row.id
         /\ Len(CompletedSets(activeSession.exercises[i]))
              > Len(calls[c].writes[Len(calls[c].writes)].row)

\* C29: whenever no session is live the rest timer is not running; in
\* particular every step that ends a live session, by a successful finish or by
\* discard, leaves the rest timer stopped.
C29_SessionEndStopsTimer ==
  [][(activeSession.live /\ ~activeSession'.live) => ~restTimer'.isRunning]_vars

\* the c-th finishWorkout call has been made and has not returned
Awaiting(c) == IF c <= Len(calls) THEN InFlight(c) ELSE FALSE

\* C30: if every storage request a commit issues returns, every finishWorkout
\* call returns and isFinishing becomes false; and whenever no call is in
\* flight isFinishing is false (a call made with no live session returns at
\* once and leaves the flag as it is).
C30_FinishReturns ==
  /\ [](isFinishing => \E c \in 1..Len(calls) : InFlight(c))
  /\ \A c \in 1..MaxFinishCalls : Awaiting(c) ~> ~Awaiting(c)
  /\ isFinishing ~> ~isFinishing
  /\ [][(lastOp'.op = "finishWorkout" /\ ~activeSession.live) =>
          /\ calls' = Append(calls, Ended("returned", 0))
          /\ UNCHANGED isFinishing]_vars

\* one call has returned after its last request, one has returned at once for
\* want of a session, none is in flight and the flag is down
C30_Witness ==
  /\ ~isFinishing
  /\ \A c \in 1..Len(calls) : ~InFlight(c)
  /\ \E c \in 1..Len(calls) : calls[c].pc = "done" /\ calls[c].issued >= 4
  /\ \E c \in 1..Len(calls) : calls[c].pc = "returned"

====
